---- MODULE Spec2Model ----
(***************************************************************************)
(* crypto-signal-bot: the indicator engine (technical_analyzer.go), the    *)
(* feature extractor and signal scorer (learning_engine.go) and the        *)
(* analysis cycle of BotService (coinmarketcap_service.go).                *)
(*                                                                         *)
(* Numbers.  A decimal.Decimal d is the integer d * Scale.  shopspring's   *)
(* Div rounds the quotient half away from zero at DivisionPrecision        *)
(* fractional digits (16 in the library; a bound here, because TLC's       *)
(* integers are 32 bits wide).  Mul is exact in the library: where its     *)
(* result is the final value of a field (confidence, stop loss, take       *)
(* profit) the product is kept exactly, in units of 1/(Scale*Scale); where *)
(* it feeds a further iteration (EMA, RSI smoothing, variance) it is       *)
(* rounded back to Scale.                                                  *)
(***************************************************************************)
EXTENDS Integers, Sequences, FiniteSets, TLC

DivisionPrecision == 2
Scale == 10 ^ DivisionPrecision

\* ------------------------------------------------------------ decimals
Abs(x) == IF x < 0 THEN -x ELSE x

\* decimal.NewFromInt
Dec(n) == n * Scale

\* d.Div(d2) for d2 # 0: the quotient rounded half away from zero.  With
\* d2 = 0 the library panics; callers decide that with the ...Divisors
\* operators before the value is used, and the value 0 stands for "none".
Div(a, b) ==
    IF b = 0 THEN 0
    ELSE LET q == (2 * Abs(a) * Scale + Abs(b)) \div (2 * Abs(b))
         IN  IF (a < 0) # (b < 0) THEN -q ELSE q

\* d.Mul(d2), rounded back to Scale (half away from zero)
Mul(a, b) ==
    LET q == (2 * Abs(a) * Abs(b) + Scale) \div (2 * Scale)
    IN  IF (a < 0) # (b < 0) THEN -q ELSE q

\* d.Mul(d2) kept exactly: the result is in units of 1/(Scale*Scale)
MulExact(a, b) == a * b

\* math.Sqrt on the float image, formatted with FormatFloat(..,'f',8,64) and
\* parsed back: the square root rounded to the nearest representable value.
RECURSIVE FloorSqrt(_, _, _)
FloorSqrt(x, lo, hi) ==
    IF lo >= hi THEN lo
    ELSE LET mid == (lo + hi + 1) \div 2
         IN  IF mid * mid <= x THEN FloorSqrt(x, mid, hi)
                               ELSE FloorSqrt(x, lo, mid - 1)

SqrtDecimal(v) ==
    LET x == v * Scale
        r == FloorSqrt(x, 0, IF x < 46340 THEN x ELSE 46340)
    IN  IF x - r * r > r THEN r + 1 ELSE r

\* Go's zero-based prices[i]
At(s, i) == s[i + 1]

\* TRUE; evaluating it computes v.  TLC hands operator arguments over
\* unevaluated, so a loop computes its running value before the next pass.
Computed(v) == v = v

\* ------------------------------------------------------ program constants
MinPeriods == 26
RSIPeriod == 14
FastPeriod == 12
SlowPeriod == 26
SignalPeriod == 9
BBPeriod == 20
BBStdDevs == 2
StochKPeriod == 14
StochDPeriod == 3
WilliamsPeriod == 14
KlineFields == 6

\* --------------------------------------------------------- indicator engine
RECURSIVE rsiInitialLoop(_, _, _, _)
rsiInitialLoop(prices, period, i, gl) ==
    IF i > period THEN gl
    ELSE LET change == At(prices, i) - At(prices, i - 1)
             next == IF change > 0 THEN <<gl[1] + change, gl[2]>>
                                   ELSE <<gl[1], gl[2] + Abs(change)>>
         IN  IF Computed(next) THEN rsiInitialLoop(prices, period, i + 1, next)
                               ELSE next

\* an RSI that smooths the size of every change into the average loss
\* (sensitivity of C14)
RECURSIVE rsiSmoothingLoopUnsigned(_, _, _, _)
rsiSmoothingLoopUnsigned(prices, period, i, avg) ==
    IF i >= Len(prices) THEN avg
    ELSE LET change == At(prices, i) - At(prices, i - 1)
             next ==
                 <<Div(Mul(avg[1], Dec(period - 1)) + change, Dec(period)),
                   Div(Mul(avg[2], Dec(period - 1)) + Abs(change), Dec(period))>>
         IN  IF Computed(next)
             THEN rsiSmoothingLoopUnsigned(prices, period, i + 1, next)
             ELSE next

RECURSIVE rsiSmoothingLoop(_, _, _, _)
rsiSmoothingLoop(prices, period, i, avg) ==
    IF i >= Len(prices) THEN avg
    ELSE LET change == At(prices, i) - At(prices, i - 1)
             next ==
                 IF change > 0
                 THEN <<Div(Mul(avg[1], Dec(period - 1)) + change, Dec(period)),
                        Div(Mul(avg[2], Dec(period - 1)), Dec(period))>>
                 ELSE <<Div(Mul(avg[1], Dec(period - 1)), Dec(period)),
                        Div(Mul(avg[2], Dec(period - 1)) + Abs(change), Dec(period))>>
         IN  IF Computed(next) THEN rsiSmoothingLoop(prices, period, i + 1, next)
                               ELSE next

\* <<avgGain, avgLoss>> after the initial average and the smoothing loop
rsiAverages(prices, period) ==
    LET gl == rsiInitialLoop(prices, period, 1, <<0, 0>>)
    IN  rsiSmoothingLoop(prices, period, period + 1,
            <<Div(gl[1], Dec(period)), Div(gl[2], Dec(period))>>)

\* an RSI that divides by RS instead of 1 + RS (sensitivity of C12)
calculateRSIWithoutOne(prices, period) ==
    IF Len(prices) < period + 1 THEN 0
    ELSE LET avg == rsiAverages(prices, period)
         IN  IF avg[2] = 0 THEN Dec(100)
             ELSE Dec(100) - Div(Dec(100), Div(avg[1], avg[2]))

calculateRSI(prices, period) ==
    IF Len(prices) < period + 1 THEN 0
    ELSE LET avg == rsiAverages(prices, period)
         IN  IF avg[2] = 0 THEN Dec(100)
             ELSE LET rs == Div(avg[1], avg[2])
                  IN  Dec(100) - Div(Dec(100), Dec(1) + rs)

\* the divisors calculateRSI hands to Div on this input
calculateRSIDivisors(prices, period) ==
    IF Len(prices) < period + 1 THEN {}
    ELSE LET avg == rsiAverages(prices, period)
         IN  {Dec(period)} \cup
             (IF avg[2] = 0 THEN {}
              ELSE {avg[2], Dec(1) + Div(avg[1], avg[2])})

RECURSIVE SumFromTo(_, _, _)
\* sum of prices[i] for from <= i < to (zero-based)
SumFromTo(prices, from, to) ==
    IF from >= to THEN 0
    ELSE At(prices, from) + SumFromTo(prices, from + 1, to)

RECURSIVE emaLoop(_, _, _, _)
emaLoop(prices, multiplier, i, ema) ==
    IF i >= Len(prices) THEN ema
    ELSE LET next == Mul(At(prices, i) - ema, multiplier) + ema
         IN  IF Computed(next) THEN emaLoop(prices, multiplier, i + 1, next)
                               ELSE next

calculateEMA(prices, period) ==
    IF Len(prices) < period THEN 0
    ELSE emaLoop(prices, Div(Dec(2), Dec(period + 1)), period,
                 Div(SumFromTo(prices, 0, period), Dec(period)))

\* an SMA that averages whatever prices there are (sensitivity of C15)
calculateSMAPartial(prices, period) ==
    IF Len(prices) = 0 THEN 0
    ELSE IF Len(prices) < period
    THEN Div(SumFromTo(prices, 0, Len(prices)), Dec(Len(prices)))
    ELSE Div(SumFromTo(prices, Len(prices) - period, Len(prices)), Dec(period))

calculateSMA(prices, period) ==
    IF Len(prices) < period THEN 0
    ELSE Div(SumFromTo(prices, Len(prices) - period, Len(prices)), Dec(period))

RECURSIVE macdHistoryLoop(_, _, _, _, _)
macdHistoryLoop(prices, fastPeriod, slowPeriod, i, macdValues) ==
    IF i >= Len(prices) THEN macdValues
    ELSE LET next ==
                 IF i >= fastPeriod - 1
                 THEN LET subPrices == SubSeq(prices, 1, i + 1)
                      IN  Append(macdValues,
                                 calculateEMA(subPrices, fastPeriod)
                                   - calculateEMA(subPrices, slowPeriod))
                 ELSE macdValues
         IN  IF Computed(next)
             THEN macdHistoryLoop(prices, fastPeriod, slowPeriod, i + 1, next)
             ELSE next

\* a MACD history that holds the final MACD value only (sensitivity of C21)
calculateMACDHistoryFinalOnly(prices, fastPeriod, slowPeriod) ==
    IF Len(prices) < slowPeriod THEN <<>>
    ELSE <<calculateEMA(prices, fastPeriod) - calculateEMA(prices, slowPeriod)>>

calculateMACDHistory(prices, fastPeriod, slowPeriod) ==
    IF Len(prices) < slowPeriod THEN <<>>
    ELSE macdHistoryLoop(prices, fastPeriod, slowPeriod, slowPeriod - 1, <<>>)

RECURSIVE sumSquaredDiffs(_, _, _, _)
sumSquaredDiffs(prices, sma, from, to) ==
    IF from >= to THEN 0
    ELSE LET diff == At(prices, from) - sma
         IN  Mul(diff, diff) + sumSquaredDiffs(prices, sma, from + 1, to)

calculateStandardDeviation(prices, period) ==
    IF Len(prices) < period THEN 0
    ELSE LET sma == calculateSMA(prices, period)
             variance == Div(sumSquaredDiffs(prices, sma, Len(prices) - period,
                                             Len(prices)), Dec(period))
         IN  SqrtDecimal(variance)

RECURSIVE highestLoop(_, _, _)
highestLoop(prices, i, highest) ==
    IF i >= Len(prices) THEN highest
    ELSE IF At(prices, i) > highest THEN highestLoop(prices, i + 1, At(prices, i))
    ELSE highestLoop(prices, i + 1, highest)

findHighest(prices, period) ==
    IF Len(prices) = 0 THEN 0
    ELSE LET start == IF Len(prices) - period < 0 THEN 0 ELSE Len(prices) - period
         IN  highestLoop(prices, start, At(prices, 0))

RECURSIVE lowestLoop(_, _, _)
lowestLoop(prices, i, lowest) ==
    IF i >= Len(prices) THEN lowest
    ELSE IF At(prices, i) < lowest THEN lowestLoop(prices, i + 1, At(prices, i))
    ELSE lowestLoop(prices, i + 1, lowest)

findLowest(prices, period) ==
    IF Len(prices) = 0 THEN 0
    ELSE LET start == IF Len(prices) - period < 0 THEN 0 ELSE Len(prices) - period
         IN  lowestLoop(prices, start, At(prices, 0))

\* Go's s[len(s)-k:]
LastK(s, k) == SubSeq(s, Len(s) - k + 1, Len(s))

\* %K; the code returns the same value as %D
calculateStochastic(highs, lows, closes, kPeriod, dPeriod) ==
    IF Len(closes) < kPeriod THEN 0
    ELSE LET currentClose == At(closes, Len(closes) - 1)
             highestHigh == findHighest(LastK(highs, kPeriod), kPeriod)
             lowestLow == findLowest(LastK(lows, kPeriod), kPeriod)
         IN  IF highestHigh # lowestLow
             THEN Mul(Div(currentClose - lowestLow, highestHigh - lowestLow),
                      Dec(100))
             ELSE 0

calculateStochasticDivisors(highs, lows, closes, kPeriod, dPeriod) ==
    IF Len(closes) < kPeriod THEN {}
    ELSE LET highestHigh == findHighest(LastK(highs, kPeriod), kPeriod)
             lowestLow == findLowest(LastK(lows, kPeriod), kPeriod)
         IN  IF highestHigh # lowestLow THEN {highestHigh - lowestLow} ELSE {}

calculateWilliamsR(highs, lows, closes, period) ==
    IF Len(closes) < period THEN 0
    ELSE LET currentClose == At(closes, Len(closes) - 1)
             highestHigh == findHighest(LastK(highs, period), period)
             lowestLow == findLowest(LastK(lows, period), period)
         IN  IF highestHigh = lowestLow THEN 0
             ELSE Mul(Div(highestHigh - currentClose, highestHigh - lowestLow),
                      Dec(-100))

calculateWilliamsRDivisors(highs, lows, closes, period) ==
    IF Len(closes) < period THEN {}
    ELSE LET highestHigh == findHighest(LastK(highs, period), period)
             lowestLow == findLowest(LastK(lows, period), period)
         IN  IF highestHigh = lowestLow THEN {} ELSE {highestHigh - lowestLow}

\* ------------------------------------------------------------ market data
\* An absent pointer (Go's nil)
Nil == [nil |-> TRUE]

\* One row of MarketData.KlineData: the number of fields of the row, which of
\* its fields are strings that parse as decimals, and the high, low and close
\* they spell.
Kline(fields, parses, high, low, close) ==
    [fields |-> fields, parses |-> parses, high |-> high, low |-> low,
     close |-> close]

\* decimal.NewFromString with the error dropped: the zero decimal on failure
NewFromString(parses, n) == IF parses THEN Dec(n) ELSE 0

RECURSIVE parseKlineLoop(_, _, _)
parseKlineLoop(klineData, i, ohlcvData) ==
    IF i >= Len(klineData) THEN ohlcvData
    ELSE LET kline == At(klineData, i)
         IN  IF kline.fields < KlineFields
             THEN parseKlineLoop(klineData, i + 1, ohlcvData)
             ELSE LET next ==
                          Append(ohlcvData,
                             [High |-> NewFromString("high" \in kline.parses,
                                                     kline.high),
                              Low |-> NewFromString("low" \in kline.parses,
                                                    kline.low),
                              Close |-> NewFromString("close" \in kline.parses,
                                                      kline.close)])
                  IN  IF Computed(next) THEN parseKlineLoop(klineData, i + 1, next)
                                        ELSE next

parseKlineData(klineData) == parseKlineLoop(klineData, 0, <<>>)

closePricesOf(ohlcvData) == [i \in 1..Len(ohlcvData) |-> ohlcvData[i].Close]
highPricesOf(ohlcvData) == [i \in 1..Len(ohlcvData) |-> ohlcvData[i].High]
lowPricesOf(ohlcvData) == [i \in 1..Len(ohlcvData) |-> ohlcvData[i].Low]

\* The indicator set, or Nil (with a nil error) for a window under 26 bars
AnalyzeMarketData(marketData) ==
    LET ohlcvData == parseKlineData(marketData.KlineData)
        closePrices == closePricesOf(ohlcvData)
        highPrices == highPricesOf(ohlcvData)
        lowPrices == lowPricesOf(ohlcvData)
        EMA12 == calculateEMA(closePrices, FastPeriod)
        EMA26 == calculateEMA(closePrices, SlowPeriod)
        MACDLine == EMA12 - EMA26
        macdValues == calculateMACDHistory(closePrices, FastPeriod, SlowPeriod)
        MACDSignal == calculateEMA(macdValues, SignalPeriod)
        SMA20 == calculateSMA(closePrices, BBPeriod)
        stdDev == calculateStandardDeviation(closePrices, BBPeriod)
        StochK == calculateStochastic(highPrices, lowPrices, closePrices,
                                      StochKPeriod, StochDPeriod)
    IN  IF Len(ohlcvData) < MinPeriods THEN Nil
        ELSE [CurrentPrice |-> marketData.Price,
              Volume |-> marketData.Volume24h,
              RSI |-> calculateRSI(closePrices, RSIPeriod),
              EMA12 |-> EMA12,
              EMA26 |-> EMA26,
              MACDLine |-> MACDLine,
              MACDSignal |-> MACDSignal,
              MACDHistogram |-> MACDLine - MACDSignal,
              SMA20 |-> SMA20,
              BBMiddle |-> SMA20,
              BBUpper |-> SMA20 + Mul(stdDev, Dec(BBStdDevs)),
              BBLower |-> SMA20 - Mul(stdDev, Dec(BBStdDevs)),
              StochK |-> StochK,
              StochD |-> StochK,
              Williams |-> calculateWilliamsR(highPrices, lowPrices, closePrices,
                                              WilliamsPeriod),
              PreviousPrice |-> IF Len(closePrices) > 1
                                THEN At(closePrices, Len(closePrices) - 2) ELSE 0,
              HighestHigh |-> findHighest(highPrices, BBPeriod),
              LowestLow |-> findLowest(lowPrices, BBPeriod)]

\* the divisors the indicator computation hands to Div on this window
AnalyzeMarketDataDivisors(marketData) ==
    LET ohlcvData == parseKlineData(marketData.KlineData)
        closePrices == closePricesOf(ohlcvData)
        highPrices == highPricesOf(ohlcvData)
        lowPrices == lowPricesOf(ohlcvData)
    IN  IF Len(ohlcvData) < MinPeriods THEN {}
        ELSE calculateRSIDivisors(closePrices, RSIPeriod)
             \cup {Dec(FastPeriod), Dec(FastPeriod + 1), Dec(SlowPeriod),
                   Dec(SlowPeriod + 1), Dec(BBPeriod)}
             \cup calculateStochasticDivisors(highPrices, lowPrices, closePrices,
                                              StochKPeriod, StochDPeriod)
             \cup calculateWilliamsRDivisors(highPrices, lowPrices, closePrices,
                                             WilliamsPeriod)

\* ------------------------------------------------------------ configuration
\* decimal.NewFromFloat of a value given in hundredths (0.30 is 30)
Hundredths(n) == (n * Scale) \div 100

DefaultMinConfidenceThreshold == 70
DefaultMaxSignalsPerDay == 10
DefaultStopLossPercentage == 5
DefaultTakeProfit1Percentage == 3
DefaultTakeProfit2Percentage == 6
DefaultRSIOversoldThreshold == 30
DefaultRSIOverboughtThreshold == 70
DefaultFearGreedMinThreshold == 20
DefaultFearGreedMaxThreshold == 80

\* config.Load with no environment override, except the two settings given:
\* MIN_CONFIDENCE_THRESHOLD (in hundredths) and MAX_SIGNALS_PER_DAY
Load(minConfidence, maxSignals) ==
    [MinConfidenceThreshold |-> minConfidence,
     MaxSignalsPerDay |-> maxSignals,
     StopLossPercentage |-> DefaultStopLossPercentage,
     TakeProfit1Percentage |-> DefaultTakeProfit1Percentage,
     TakeProfit2Percentage |-> DefaultTakeProfit2Percentage,
     RSIOversoldThreshold |-> DefaultRSIOversoldThreshold,
     RSIOverboughtThreshold |-> DefaultRSIOverboughtThreshold,
     FearGreedMinThreshold |-> DefaultFearGreedMinThreshold,
     FearGreedMaxThreshold |-> DefaultFearGreedMaxThreshold]

\* -------------------------------------------------------- feature extractor
SqueezeRatio == 2

\* LearningEngine.calculateBBPosition
calculateBBPosition(price, upper, lower) ==
    IF upper = lower THEN Hundredths(50)
    ELSE Div(price - lower, upper - lower)

calculateBBPositionDivisors(price, upper, lower) ==
    IF upper = lower THEN {} ELSE {upper - lower}

\* sentiment buckets with strict comparisons (sensitivity of C16)
SentimentOfStrict(fearGreedIndex) ==
    IF fearGreedIndex < 20 THEN "extreme_fear"
    ELSE IF fearGreedIndex < 40 THEN "fear"
    ELSE IF fearGreedIndex > 80 THEN "extreme_greed"
    ELSE IF fearGreedIndex > 60 THEN "greed"
    ELSE "neutral"

\* ExtractFeatures: the market sentiment chain
SentimentOf(fearGreedIndex) ==
    IF fearGreedIndex <= 20 THEN "extreme_fear"
    ELSE IF fearGreedIndex <= 40 THEN "fear"
    ELSE IF fearGreedIndex >= 80 THEN "extreme_greed"
    ELSE IF fearGreedIndex >= 60 THEN "greed"
    ELSE "neutral"

\* ExtractFeatures on a present indicator set whose divisors are non-zero
ExtractFeatures(marketData, indicators, cfg) ==
    LET priceAboveSMA20 == marketData.Price > indicators.SMA20
        emaCrossover == indicators.EMA12 > indicators.EMA26
        bbRange == indicators.BBUpper - indicators.BBLower
        avgPrice == indicators.SMA20
    IN  [RSI |-> indicators.RSI,
         MACDHistogram |-> indicators.MACDHistogram,
         BBPosition |-> calculateBBPosition(marketData.Price, indicators.BBUpper,
                                            indicators.BBLower),
         FearGreedIndex |-> Dec(marketData.FearGreedIndex),
         Volume24h |-> marketData.Volume24h,
         PriceAboveSMA20 |-> priceAboveSMA20,
         EMACrossover |-> emaCrossover,
         RSIOversold |-> indicators.RSI < Dec(cfg.RSIOversoldThreshold),
         RSIOverbought |-> indicators.RSI > Dec(cfg.RSIOverboughtThreshold),
         MACDBullish |-> indicators.MACDHistogram > 0,
         BBSqueeze |-> Div(bbRange, avgPrice) < Hundredths(SqueezeRatio),
         HighVolume |-> marketData.Volume24h > 0,
         TrendDirection |-> IF priceAboveSMA20 /\ emaCrossover THEN "bullish"
                            ELSE IF ~priceAboveSMA20 /\ ~emaCrossover THEN "bearish"
                            ELSE "neutral",
         MarketSentiment |-> SentimentOf(marketData.FearGreedIndex)]

\* the divisors ExtractFeatures hands to Div
ExtractFeaturesDivisors(marketData, indicators) ==
    calculateBBPositionDivisors(marketData.Price, indicators.BBUpper,
                                indicators.BBLower)
    \cup {indicators.SMA20}

\* ExtractFeatures reads indicators.BBUpper first: a nil pointer dereference
\* when the set is absent; decimal.Div panics on a zero divisor
ExtractFeaturesPanics(marketData, indicators) ==
    \/ indicators = Nil
    \/ 0 \in ExtractFeaturesDivisors(marketData, indicators)

\* NotificationService.getFearGreedText
getFearGreedText(index) ==
    IF index <= 20 THEN "Extreme Fear"
    ELSE IF index <= 40 THEN "Fear"
    ELSE IF index <= 60 THEN "Neutral"
    ELSE IF index <= 80 THEN "Greed"
    ELSE "Extreme Greed"

\* ------------------------------------------------------- outcome predictor
\* PredictSignalOutcome's increments, decimal.NewFromFloat literals
BaseConfidence == 50
ConfidenceRSI == 15
ConfidenceMACDBullish == 12
ConfidenceMACDBearish == 8
ConfidenceBB == 8
ConfidenceSentiment == 10
ConfidenceTrend == 5
BBPositionLow == 20
BBPositionHigh == 80
MinScore == 3

\* PredictSignalOutcome: bullishScore after the five bullish tests
bullishScore(features) ==
    (IF features.RSIOversold THEN 2 ELSE 0)
    + (IF features.MACDBullish THEN 2 ELSE 0)
    + (IF features.BBPosition < Hundredths(BBPositionLow) THEN 1 ELSE 0)
    + (IF features.MarketSentiment = "extreme_fear" THEN 2 ELSE 0)
    + (IF features.TrendDirection = "bullish" THEN 1 ELSE 0)

\* PredictSignalOutcome: bearishScore after the five bearish tests
bearishScore(features) ==
    (IF features.RSIOverbought THEN 2 ELSE 0)
    + (IF ~features.MACDBullish THEN 1 ELSE 0)
    + (IF features.BBPosition > Hundredths(BBPositionHigh) THEN 1 ELSE 0)
    + (IF features.MarketSentiment = "extreme_greed" THEN 2 ELSE 0)
    + (IF features.TrendDirection = "bearish" THEN 1 ELSE 0)

\* PredictSignalOutcome: confidence after the ten tests
accumulatedConfidence(features) ==
    Hundredths(BaseConfidence)
    + (IF features.RSIOversold THEN Hundredths(ConfidenceRSI) ELSE 0)
    + (IF features.MACDBullish THEN Hundredths(ConfidenceMACDBullish) ELSE 0)
    + (IF features.BBPosition < Hundredths(BBPositionLow)
       THEN Hundredths(ConfidenceBB) ELSE 0)
    + (IF features.MarketSentiment = "extreme_fear"
       THEN Hundredths(ConfidenceSentiment) ELSE 0)
    + (IF features.TrendDirection = "bullish"
       THEN Hundredths(ConfidenceTrend) ELSE 0)
    + (IF features.RSIOverbought THEN Hundredths(ConfidenceRSI) ELSE 0)
    + (IF ~features.MACDBullish THEN Hundredths(ConfidenceMACDBearish) ELSE 0)
    + (IF features.BBPosition > Hundredths(BBPositionHigh)
       THEN Hundredths(ConfidenceBB) ELSE 0)
    + (IF features.MarketSentiment = "extreme_greed"
       THEN Hundredths(ConfidenceSentiment) ELSE 0)
    + (IF features.TrendDirection = "bearish"
       THEN Hundredths(ConfidenceTrend) ELSE 0)

\* an uncertain prediction that carries no confidence at all (sensitivity of
\* C18)
lowerConfidenceToZero(confidence) == 0

\* confidence.Mul(0.5) in the uncertain case, in units of 1/(Scale*Scale)
lowerConfidence(confidence) == MulExact(confidence, Hundredths(50))

\* PredictSignalOutcome; Confidence is in units of 1/(Scale*Scale)
PredictSignalOutcome(features) ==
    LET bullish == bullishScore(features)
        bearish == bearishScore(features)
        confidence == accumulatedConfidence(features)
        certain == \/ (bullish > bearish /\ bullish >= MinScore)
                   \/ (bearish > bullish /\ bearish >= MinScore)
        outcome == IF certain THEN "profit" ELSE "loss"
        lowered == IF certain THEN confidence * Scale
                   ELSE lowerConfidence(confidence)
    IN  [Outcome |-> outcome,
         Confidence |-> IF lowered > Dec(1) * Scale THEN Dec(1) * Scale
                        ELSE lowered]

\* -------------------------------------------------------------- signal scorer
WeightRSI == 30
WeightMACD == 25
WeightBollinger == 20
WeightFearGreed == 15
WeightPriceAction == 10
HoldConfidence == 10

Vote(signal, weight, reason) ==
    <<[signal |-> signal, weight |-> Hundredths(weight), reason |-> reason]>>

\* the five rule groups of analyzeMarketConditions, each at most one vote
rsiVote(indicators, cfg) ==
    IF indicators.RSI < Dec(cfg.RSIOversoldThreshold)
    THEN Vote("BUY", WeightRSI, "RSI oversold")
    ELSE IF indicators.RSI > Dec(cfg.RSIOverboughtThreshold)
    THEN Vote("SELL", WeightRSI, "RSI overbought")
    ELSE <<>>

macdVote(indicators) ==
    IF indicators.MACDLine > indicators.MACDSignal /\ indicators.MACDHistogram > 0
    THEN Vote("BUY", WeightMACD, "MACD bullish crossover")
    ELSE IF indicators.MACDLine < indicators.MACDSignal
            /\ indicators.MACDHistogram < 0
    THEN Vote("SELL", WeightMACD, "MACD bearish crossover")
    ELSE <<>>

bollingerVote(currentPrice, indicators) ==
    IF currentPrice < indicators.BBLower
    THEN Vote("BUY", WeightBollinger, "Price below lower Bollinger Band")
    ELSE IF currentPrice > indicators.BBUpper
    THEN Vote("SELL", WeightBollinger, "Price above upper Bollinger Band")
    ELSE <<>>

fearGreedVote(marketData, cfg) ==
    IF Dec(marketData.FearGreedIndex) < Dec(cfg.FearGreedMinThreshold)
    THEN Vote("BUY", WeightFearGreed, "Extreme fear in market")
    ELSE IF Dec(marketData.FearGreedIndex) > Dec(cfg.FearGreedMaxThreshold)
    THEN Vote("SELL", WeightFearGreed, "Extreme greed in market")
    ELSE <<>>

priceActionVote(currentPrice, indicators) ==
    IF currentPrice > indicators.SMA20 /\ indicators.EMA12 > indicators.EMA26
    THEN Vote("BUY", WeightPriceAction,
              "Price above SMA20 with bullish EMA crossover")
    ELSE IF currentPrice < indicators.SMA20 /\ indicators.EMA12 < indicators.EMA26
    THEN Vote("SELL", WeightPriceAction,
              "Price below SMA20 with bearish EMA crossover")
    ELSE <<>>

\* a scorer that evaluates market sentiment before the indicators
\* (sensitivity of C19)
castVotesSentimentFirst(marketData, indicators, cfg) ==
    fearGreedVote(marketData, cfg)
      \o rsiVote(indicators, cfg) \o macdVote(indicators)
      \o bollingerVote(marketData.Price, indicators)
      \o priceActionVote(marketData.Price, indicators)

\* signals, confidenceFactors and reasoning, appended in evaluation order
castVotes(marketData, indicators, cfg) ==
    rsiVote(indicators, cfg) \o macdVote(indicators)
      \o bollingerVote(marketData.Price, indicators)
      \o fearGreedVote(marketData, cfg)
      \o priceActionVote(marketData.Price, indicators)

RECURSIVE countSignals(_, _)
countSignals(votes, signal) ==
    IF votes = <<>> THEN 0
    ELSE (IF Head(votes).signal = signal THEN 1 ELSE 0)
         + countSignals(Tail(votes), signal)

RECURSIVE sumConfidence(_)
\* totalConfidence: the loop adds confidenceFactors[i] for every vote
sumConfidence(votes) ==
    IF votes = <<>> THEN 0 ELSE Head(votes).weight + sumConfidence(Tail(votes))

\* a scorer that divides the total by the count (sensitivity of C6)
voteRatioInverted(count, total) ==
    IF count = 0 THEN 0 ELSE (total * Scale) \div count

\* decimal.NewFromFloat(float64(count) / float64(total)) for total > 0: the
\* float quotient's shortest decimal, which for 2/3 lies below the quotient;
\* kept to DivisionPrecision digits.  With total = 0 the float is NaN and
\* NewFromFloat panics.
voteRatio(count, total) == IF total = 0 THEN 0 ELSE (count * Scale) \div total

\* a scorer that lets BUY win a tie (sensitivity of C7)
selectActionTieBuys(buySignals, sellSignals) ==
    IF buySignals >= sellSignals THEN "BUY" ELSE "SELL"

selectAction(buySignals, sellSignals) ==
    IF buySignals > sellSignals THEN "BUY"
    ELSE IF sellSignals > buySignals THEN "SELL"
    ELSE "HOLD"

\* the totals the decision logic divides by: len(signals) in the branch taken
decisionDivisors(buySignals, sellSignals, total) ==
    IF buySignals > sellSignals THEN {total}
    ELSE IF sellSignals > buySignals THEN {total}
    ELSE {}

\* a scorer whose HOLD confidence scales with the weights cast (sensitivity
\* of C8)
decideConfidenceWeightedHold(buySignals, sellSignals, total, totalConfidence) ==
    IF buySignals > sellSignals
    THEN MulExact(totalConfidence, voteRatio(buySignals, total))
    ELSE IF sellSignals > buySignals
    THEN MulExact(totalConfidence, voteRatio(sellSignals, total))
    ELSE MulExact(Hundredths(HoldConfidence), totalConfidence)

\* confidence, in units of 1/(Scale*Scale)
decideConfidence(buySignals, sellSignals, total, totalConfidence) ==
    IF buySignals > sellSignals
    THEN MulExact(totalConfidence, voteRatio(buySignals, total))
    ELSE IF sellSignals > buySignals
    THEN MulExact(totalConfidence, voteRatio(sellSignals, total))
    ELSE MulExact(Hundredths(HoldConfidence), Dec(1))

\* <<stopLoss, takeProfit1, takeProfit2>>, in units of 1/(Scale*Scale); the
\* zero decimals for HOLD
priceTargets(action, currentPrice, cfg) ==
    LET stopLossPercent == Hundredths(cfg.StopLossPercentage)
        takeProfit1Percent == Hundredths(cfg.TakeProfit1Percentage)
        takeProfit2Percent == Hundredths(cfg.TakeProfit2Percentage)
    IN  IF action = "BUY"
        THEN <<MulExact(currentPrice, Dec(1) - stopLossPercent),
               MulExact(currentPrice, Dec(1) + takeProfit1Percent),
               MulExact(currentPrice, Dec(1) + takeProfit2Percent)>>
        ELSE IF action = "SELL"
        THEN <<MulExact(currentPrice, Dec(1) + stopLossPercent),
               MulExact(currentPrice, Dec(1) - takeProfit1Percent),
               MulExact(currentPrice, Dec(1) - takeProfit2Percent)>>
        ELSE <<0, 0, 0>>

analyzeMarketConditions(marketData, indicators, cfg) ==
    LET votes == castVotes(marketData, indicators, cfg)
        buySignals == countSignals(votes, "BUY")
        sellSignals == countSignals(votes, "SELL")
        totalConfidence == sumConfidence(votes)
        action == selectAction(buySignals, sellSignals)
        targets == priceTargets(action, marketData.Price, cfg)
    IN  [Action |-> action,
         Confidence |-> decideConfidence(buySignals, sellSignals, Len(votes),
                                         totalConfidence),
         Reasoning |-> [i \in 1..Len(votes) |-> votes[i].reason],
         EntryPrice |-> marketData.Price,
         StopLoss |-> targets[1],
         TakeProfit1 |-> targets[2],
         TakeProfit2 |-> targets[3],
         BuySignals |-> buySignals,
         SellSignals |-> sellSignals,
         TotalSignals |-> Len(votes)]

analyzeMarketConditionsDivisors(marketData, indicators, cfg) ==
    LET votes == castVotes(marketData, indicators, cfg)
    IN  decisionDivisors(countSignals(votes, "BUY"), countSignals(votes, "SELL"),
                         Len(votes))

\* SignalGenerator.hasReachedDailyLimit: "For now, return false"
hasReachedDailyLimit == FALSE

\* a generator without the threshold check (sensitivity of C9)
belowThresholdNever(decision, cfg) == FALSE

\* the threshold check of GenerateSignal: Confidence.LessThan(minConfidence)
belowThreshold(decision, cfg) ==
    decision.Confidence < MulExact(Hundredths(cfg.MinConfidenceThreshold), Dec(1))

\* ------------------------------------------------------------------ inputs
MaxBars == 36
NumDefaultCryptos == 2
MaxStarts == 1
MaxCycles == 2

\* close, high and low of bar i (1-based) of an n-bar series of each shape
ShapeClose(shape, i, n) ==
    CASE shape \in {"flat", "highless"} -> 10
      [] shape = "rising" -> i
      [] shape = "falling" -> n + 1 - i
      [] shape = "dip" -> IF i = 1 THEN 20 ELSE IF i <= 14 THEN 10 ELSE 12
      [] shape = "zigzag" -> IF i % 2 = 0 THEN 12 ELSE 10
      [] shape = "steps" -> (i + 1) \div 2
      [] OTHER -> 0

ShapeSpread(shape) ==
    IF shape \in {"rising", "falling", "zigzag", "steps", "highless"} THEN 1
    ELSE 0

\* the fields of a row that are strings spelling a decimal
ShapeParses(shape) ==
    CASE shape = "garbled" -> {}
      [] shape = "highless" -> {"low", "close"}
      [] OTHER -> {"high", "low", "close"}

\* n rows of Binance klines: "garbled" rows carry strings that do not parse,
\* "highless" rows a high that is not a decimal string, "ragged" series a row
\* of fewer than 6 fields at every second place
Klines(shape, n) ==
    [i \in 1..n |->
        LET c == ShapeClose(shape, i, n)
            lo == IF c < ShapeSpread(shape) THEN 0 ELSE c - ShapeSpread(shape)
        IN  Kline(IF shape = "ragged" /\ i % 2 = 0 THEN KlineFields - 1
                  ELSE 2 * KlineFields,
                  ShapeParses(shape), c + ShapeSpread(shape), lo, c)]

Snapshot(price, fearGreed, klineData) ==
    [Price |-> Dec(price), Volume24h |-> Dec(1), FearGreedIndex |-> fearGreed,
     KlineData |-> klineData]

Shapes ==
    {"flat", "zero", "garbled", "highless", "ragged", "rising", "falling",
     "steps", "dip", "zigzag"}

WindowLengths ==
    {0, RSIPeriod, MinPeriods - 1, MinPeriods, SlowPeriod + SignalPeriod - 2,
     SlowPeriod + SignalPeriod - 1, MaxBars}

Prices == {0, 9, 11, 14, 40}
FearGreedValues == {10, 50, 90}

\* every market data the engine is applied to
EngineInputs ==
    {Snapshot(p, fg, Klines(sh, n)) :
        p \in Prices, fg \in FearGreedValues, sh \in Shapes, n \in WindowLengths}

Configs ==
    {Load(DefaultMinConfidenceThreshold, DefaultMaxSignalsPerDay),
     [Load(50, DefaultMaxSignalsPerDay) EXCEPT
         !.StopLossPercentage = 2, !.TakeProfit1Percentage = 1,
         !.TakeProfit2Percentage = 4]}

\* -------------------------------------------------------------- the bot
\* "cron" is the scheduler's market_analysis job, "rest" the POST /bot/analyze
\* handler; both call BotService.RunAnalysis on the one shared BotService.
Procs == {"cron", "rest"}

DefaultCryptos == [i \in 1..NumDefaultCryptos |-> i]

\* what DataCollector.GetMarketData can hand to one analysis
MarketFeed ==
    {Snapshot(9, 10, Klines("dip", MinPeriods)),
     Snapshot(9, 10, Klines("dip", MinPeriods - 1)),
     Snapshot(0, 50, Klines("garbled", MinPeriods)),
     Snapshot(11, 50, Klines("flat", MaxBars))}

BotConfigs == {Load(DefaultMinConfidenceThreshold, m) : m \in {1, 2}}

\* eng is the engine applied to one input outside the bot (see SpecEngine)
VARIABLES eng, config, isRunning, totalSignalsToday, cryptoList, savedSignals,
          sentNotifications, crashed, starts, cycles,
          pc, idx, marketData, indicators, decision, signal, loaded

botVars == <<config, isRunning, totalSignalsToday, cryptoList, savedSignals,
             sentNotifications, crashed, starts, cycles,
             pc, idx, marketData, indicators, decision, signal, loaded>>
counters == <<totalSignalsToday, savedSignals, sentNotifications>>
locals == <<marketData, indicators, decision, signal>>
shared == <<config, isRunning, cryptoList, crashed, starts>>
vars == <<botVars, eng>>

\* NewBotService, with the configuration Load returned
NewBotService(c) ==
    /\ config = c
    /\ isRunning = FALSE
    /\ totalSignalsToday = 0
    /\ cryptoList = <<>>
    /\ savedSignals = 0
    /\ sentNotifications = 0
    /\ crashed = FALSE
    /\ starts = 0
    /\ cycles = 0
    /\ pc = [p \in Procs |-> "idle"]
    /\ idx = [p \in Procs |-> 0]
    /\ marketData = [p \in Procs |-> Nil]
    /\ indicators = [p \in Procs |-> Nil]
    /\ decision = [p \in Procs |-> Nil]
    /\ signal = [p \in Procs |-> Nil]
    /\ loaded = [p \in Procs |-> 0]

\* BotService.Start: initializeCryptoList appends the defaults
Start ==
    /\ ~crashed
    /\ starts < MaxStarts
    /\ starts' = starts + 1
    /\ cryptoList' = cryptoList \o DefaultCryptos
    /\ isRunning' = TRUE
    /\ UNCHANGED <<eng, loaded, config, crashed, cycles, counters, pc, idx, locals>>

\* BotService.Stop
Stop ==
    /\ ~crashed
    /\ isRunning
    /\ isRunning' = FALSE
    /\ UNCHANGED <<eng, loaded, config, cryptoList, crashed, starts, cycles, counters, pc,
                   idx, locals>>

\* no analyzeCryptocurrency call is in progress: its locals are gone
NoLocals(p) ==
    /\ marketData' = [marketData EXCEPT ![p] = Nil]
    /\ indicators' = [indicators EXCEPT ![p] = Nil]
    /\ decision' = [decision EXCEPT ![p] = Nil]
    /\ signal' = [signal EXCEPT ![p] = Nil]

\* BotService.RunAnalysis up to its loop: the running check and the one
\* daily-quota check
RunAnalysis(p) ==
    /\ ~crashed
    /\ pc[p] \in {"idle", "panic"}
    /\ cycles < MaxCycles
    /\ cycles' = cycles + 1
    /\ idx' = [idx EXCEPT ![p] = 0]
    /\ pc' = [pc EXCEPT ![p] =
            IF ~isRunning THEN "idle"
            ELSE IF totalSignalsToday >= config.MaxSignalsPerDay THEN "idle"
            ELSE "loop"]
    /\ NoLocals(p)
    /\ UNCHANGED <<eng, loaded, shared, counters>>

\* the head of "for _, crypto := range bs.cryptoList"
NextCrypto(p) ==
    /\ ~crashed
    /\ pc[p] = "loop"
    /\ pc' = [pc EXCEPT ![p] = IF idx[p] < Len(cryptoList) THEN "fetch"
                               ELSE "idle"]
    /\ NoLocals(p)
    /\ UNCHANGED <<eng, loaded, shared, cycles, counters, idx>>

\* analyzeCryptocurrency: dataCollector.GetMarketData, which may fail
GetMarketData(p) ==
    /\ ~crashed
    /\ pc[p] = "fetch"
    /\ \/ /\ \E md \in MarketFeed : marketData' = [marketData EXCEPT ![p] = md]
          /\ pc' = [pc EXCEPT ![p] = "analyze"]
          /\ idx' = idx
       \/ /\ marketData' = [marketData EXCEPT ![p] = Nil]
          /\ pc' = [pc EXCEPT ![p] = "loop"]
          /\ idx' = [idx EXCEPT ![p] = @ + 1]
    /\ indicators' = [indicators EXCEPT ![p] = Nil]
    /\ decision' = [decision EXCEPT ![p] = Nil]
    /\ signal' = [signal EXCEPT ![p] = Nil]
    /\ UNCHANGED <<eng, loaded, shared, cycles, counters>>

\* a panic unwinds the goroutine: nothing recovers it in the cron job, so the
\* process dies; net/http recovers it in a request handler
Panic(p) ==
    /\ pc' = [pc EXCEPT ![p] = "panic"]
    /\ crashed' = (crashed \/ p = "cron")

\* an engine that consumes the window it is given (sensitivity of C20)
AnalyzeStepConsuming(p) ==
    /\ ~crashed
    /\ pc[p] = "analyze"
    /\ indicators' = [indicators EXCEPT ![p] = AnalyzeMarketData(marketData[p])]
    /\ marketData' = [marketData EXCEPT ![p].KlineData = <<>>]
    /\ pc' = [pc EXCEPT ![p] = "features"]
    /\ UNCHANGED <<eng, loaded, shared, cycles, counters, idx, decision, signal>>

\* analyzeCryptocurrency: AnalyzeMarketData, its error check, and
\* saveMarketSnapshot, which only logs
AnalyzeStep(p) ==
    /\ ~crashed
    /\ pc[p] = "analyze"
    /\ indicators' = [indicators EXCEPT ![p] = AnalyzeMarketData(marketData[p])]
    /\ pc' = [pc EXCEPT ![p] = "features"]
    /\ UNCHANGED <<eng, loaded, shared, cycles, counters, idx, marketData, decision, signal>>

\* analyzeCryptocurrency: ExtractFeatures and PredictSignalOutcome
ExtractStep(p) ==
    /\ ~crashed
    /\ pc[p] = "features"
    /\ IF ExtractFeaturesPanics(marketData[p], indicators[p])
       THEN Panic(p)
       ELSE pc' = [pc EXCEPT ![p] = "generate"] /\ crashed' = crashed
    /\ UNCHANGED <<eng, loaded, config, isRunning, cryptoList, starts, cycles, counters,
                   idx, locals>>

\* the TradingSignal that GenerateSignal builds from a decision
TradingSignal(crypto, d, ind) ==
    [CryptoID |-> crypto, Action |-> d.Action, ConfidenceScore |-> d.Confidence,
     EntryPrice |-> d.EntryPrice, StopLoss |-> d.StopLoss,
     TakeProfit1 |-> d.TakeProfit1, TakeProfit2 |-> d.TakeProfit2,
     MACDSignal |-> ind.MACDSignal]

\* analyzeCryptocurrency: SignalGenerator.GenerateSignal, db.CreateSignal
\* included, and the error check after it
GenerateSignal(p) ==
    /\ ~crashed
    /\ pc[p] = "generate"
    /\ LET d == analyzeMarketConditions(marketData[p], indicators[p], config)
       IN  /\ decision' = [decision EXCEPT ![p] = d]
           /\ IF belowThreshold(d, config) \/ hasReachedDailyLimit
              THEN /\ signal' = [signal EXCEPT ![p] = Nil]
                   /\ pc' = [pc EXCEPT ![p] = "sleep"]
                   /\ UNCHANGED <<savedSignals, idx>>
              ELSE \/ /\ signal' = [signal EXCEPT ![p] =
                              TradingSignal(At(cryptoList, idx[p]), d,
                                            indicators[p])]
                      /\ savedSignals' = savedSignals + 1
                      /\ pc' = [pc EXCEPT ![p] = "learn"]
                      /\ idx' = idx
                   \/ /\ signal' = [signal EXCEPT ![p] = Nil]
                      /\ pc' = [pc EXCEPT ![p] = "loop"]
                      /\ idx' = [idx EXCEPT ![p] = @ + 1]
                      /\ savedSignals' = savedSignals
    /\ UNCHANGED <<eng, loaded, shared, cycles, totalSignalsToday, sentNotifications,
                   marketData, indicators>>

\* analyzeCryptocurrency: learningEngine.SaveLearningData, whose error is
\* only logged
SaveLearningData(p) ==
    /\ ~crashed
    /\ pc[p] = "learn"
    /\ pc' = [pc EXCEPT ![p] = "notify"]
    /\ UNCHANGED <<eng, loaded, shared, cycles, counters, idx, locals>>

\* an analysis that returns when the notification fails (sensitivity of C27)
SendSignalNotificationOrReturn(p) ==
    /\ ~crashed
    /\ pc[p] = "notify"
    /\ \E sent \in BOOLEAN :
          /\ sentNotifications' = sentNotifications + (IF sent THEN 1 ELSE 0)
          /\ pc' = [pc EXCEPT ![p] = IF sent THEN "count" ELSE "sleep"]
    /\ UNCHANGED <<eng, loaded, shared, cycles, totalSignalsToday, savedSignals, idx, locals>>

\* analyzeCryptocurrency: notificationService.SendSignalNotification, whose
\* error is only logged
SendSignalNotification(p) ==
    /\ ~crashed
    /\ pc[p] = "notify"
    /\ \E sent \in BOOLEAN :
          sentNotifications' = sentNotifications + (IF sent THEN 1 ELSE 0)
    /\ pc' = [pc EXCEPT ![p] = "count"]
    /\ UNCHANGED <<eng, loaded, shared, cycles, totalSignalsToday, savedSignals, idx, locals>>

\* analyzeCryptocurrency: bs.totalSignalsToday++, an unsynchronised
\* read-modify-write of a field both goroutines share: the read ...
LoadCount(p) ==
    /\ ~crashed
    /\ pc[p] = "count"
    /\ loaded' = [loaded EXCEPT ![p] = totalSignalsToday]
    /\ pc' = [pc EXCEPT ![p] = "store"]
    /\ UNCHANGED <<eng, shared, cycles, counters, idx, locals>>

\* ... and the write
StoreCount(p) ==
    /\ ~crashed
    /\ pc[p] = "store"
    /\ totalSignalsToday' = loaded[p] + 1
    /\ loaded' = [loaded EXCEPT ![p] = 0]
    /\ pc' = [pc EXCEPT ![p] = "sleep"]
    /\ UNCHANGED <<eng, shared, cycles, savedSignals, sentNotifications, idx,
                   locals>>

\* RunAnalysis: the rate-limiting time.Sleep after an analysis that returned
\* nil, then the next iteration
Sleep(p) ==
    /\ ~crashed
    /\ pc[p] = "sleep"
    /\ pc' = [pc EXCEPT ![p] = "loop"]
    /\ idx' = [idx EXCEPT ![p] = @ + 1]
    /\ NoLocals(p)
    /\ UNCHANGED <<eng, loaded, shared, cycles, counters>>

Step(p) ==
    \/ RunAnalysis(p)
    \/ NextCrypto(p)
    \/ GetMarketData(p)
    \/ AnalyzeStep(p)
    \/ ExtractStep(p)
    \/ GenerateSignal(p)
    \/ SaveLearningData(p)
    \/ SendSignalNotification(p)
    \/ LoadCount(p)
    \/ StoreCount(p)
    \/ Sleep(p)

\* ------------------------------------------------- the engine on one input
InitEngine ==
    /\ NewBotService(Load(DefaultMinConfidenceThreshold, DefaultMaxSignalsPerDay))
    /\ eng \in
            {[stage |-> "input", marketData |-> m, cfg |-> c,
              indicators |-> Nil, features |-> Nil, decision |-> Nil] :
             m \in EngineInputs, c \in Configs}

\* TechnicalAnalyzer.AnalyzeMarketData
EngineAnalyze ==
    /\ eng.stage = "input"
    /\ eng' = [eng EXCEPT !.indicators = AnalyzeMarketData(eng.marketData),
                          !.stage = "indicators"]
    /\ UNCHANGED botVars

\* LearningEngine.ExtractFeatures, called with whatever AnalyzeMarketData gave
EngineExtract ==
    /\ eng.stage = "indicators"
    /\ IF ExtractFeaturesPanics(eng.marketData, eng.indicators)
       THEN eng' = [eng EXCEPT !.stage = "panic"]
       ELSE eng' = [eng EXCEPT
                !.features = ExtractFeatures(eng.marketData, eng.indicators,
                                             eng.cfg),
                !.stage = "features"]
    /\ UNCHANGED botVars

\* SignalGenerator.analyzeMarketConditions
EngineScore ==
    /\ eng.stage = "features"
    /\ eng' = [eng EXCEPT
            !.decision = analyzeMarketConditions(eng.marketData, eng.indicators,
                                                 eng.cfg),
            !.stage = "decision"]
    /\ UNCHANGED botVars

NextEngine == EngineAnalyze \/ EngineExtract \/ EngineScore

\* ------------------------------------------ the scorer on indicator values
\* indicator sets laid out so that each rule group votes BUY, SELL or not at
\* all independently of the others
GridIndicators ==
    {[CurrentPrice |-> Dec(12), Volume |-> Dec(1), RSI |-> Dec(rsi),
      EMA12 |-> Dec(ema12), EMA26 |-> Dec(12),
      MACDLine |-> Dec(macd), MACDSignal |-> 0, MACDHistogram |-> Dec(macd),
      SMA20 |-> Dec(sma20), BBMiddle |-> Dec(sma20),
      BBUpper |-> Dec(13), BBLower |-> Dec(11),
      StochK |-> Dec(50), StochD |-> Dec(50), Williams |-> Dec(0 - 50),
      PreviousPrice |-> Dec(12), HighestHigh |-> Dec(14), LowestLow |-> Dec(10)] :
        rsi \in {20, 50, 80}, macd \in {0 - 1, 0, 1}, ema12 \in {11, 13},
        sma20 \in {5, 20}}

GridPrices == {10, 12, 14}

InitScorer ==
    /\ NewBotService(Load(DefaultMinConfidenceThreshold, DefaultMaxSignalsPerDay))
    /\ eng \in
            {[stage |-> "features", marketData |-> Snapshot(p, fg, <<>>),
              cfg |-> c, indicators |-> ind,
              features |-> ExtractFeatures(Snapshot(p, fg, <<>>), ind, c),
              decision |-> Nil] :
             p \in GridPrices, fg \in FearGreedValues, ind \in GridIndicators,
             c \in Configs}

NextScorer == EngineScore

SpecScorer == InitScorer /\ [][NextScorer]_vars

\* ---------------------------------- features and prediction on the grid
\* the values the Fear & Greed index takes
FearGreedRange == 0..100

InitFeatures ==
    /\ NewBotService(Load(DefaultMinConfidenceThreshold, DefaultMaxSignalsPerDay))
    /\ eng \in
            {[stage |-> "indicators", marketData |-> Snapshot(p, fg, <<>>),
              cfg |-> Load(DefaultMinConfidenceThreshold, DefaultMaxSignalsPerDay),
              indicators |-> ind, features |-> Nil, decision |-> Nil,
              prediction |-> Nil, fgiText |-> Nil] :
             p \in GridPrices, fg \in FearGreedRange, ind \in GridIndicators}

\* LearningEngine.PredictSignalOutcome on the extracted features
EnginePredict ==
    /\ eng.stage = "features"
    /\ eng' = [eng EXCEPT !.prediction = PredictSignalOutcome(eng.features),
                          !.stage = "prediction"]
    /\ UNCHANGED botVars

\* formatSignalMessage: the Fear & Greed line of the notification, written
\* from the index the signal carries
EngineFormatMessage ==
    /\ eng.stage = "prediction"
    /\ eng' = [eng EXCEPT
            !.fgiText = getFearGreedText(eng.marketData.FearGreedIndex),
            !.stage = "message"]
    /\ UNCHANGED botVars

NextFeatures == EngineExtract \/ EnginePredict \/ EngineFormatMessage

SpecFeatures == InitFeatures /\ [][NextFeatures]_vars

\* ------------------------------------------------------- the watchlist
\* bs.cryptoList is a Go slice: a backing array (cells), a length, and the
\* array's capacity (Len(cells)).  The "for range" of RunAnalysis copies the
\* slice header once: it walks the array it started on, up to the length it
\* started with, reading each cell when it gets there.  While the watchlist
\* still lives in that array (aliased) the loop reads cells; once an append
\* has moved the watchlist to a new array the loop reads its own rcells.
MaxWatchStarts == 2
MaxWatchCycles == 1
MaxWatchEdits == 3

\* a symbol the user may add, beyond the defaults
UserSymbols == {NumDefaultCryptos + 1}
WatchSymbols == (1..NumDefaultCryptos) \cup UserSymbols

\* a cell of a backing array that was never written
EmptyCell == 0

\* a cell beyond the length of an array no loop is walking is never read
\* before it is written again: it is recorded as empty
settled(w) ==
    IF w.aliased THEN w
    ELSE [w EXCEPT !.cells = [k \in 1..Len(w.cells) |->
                                 IF k <= w.len THEN w.cells[k] ELSE EmptyCell]]

\* the capacity append gives a full slice of pointers: 1, then doubled
grownCapacity(capacity) == IF capacity = 0 THEN 1 ELSE 2 * capacity

\* bs.cryptoList = append(bs.cryptoList, x)
appendCrypto(w, x) ==
    IF w.len < Len(w.cells)
    THEN [w EXCEPT !.cells[w.len + 1] = x, !.len = w.len + 1]
    ELSE [w EXCEPT
            !.cells = [k \in 1..grownCapacity(Len(w.cells)) |->
                          IF k <= w.len THEN w.cells[k]
                          ELSE IF k = w.len + 1 THEN x ELSE EmptyCell],
            !.len = w.len + 1,
            !.rcells = IF w.aliased THEN w.cells ELSE w.rcells,
            !.aliased = FALSE]

\* initializeCryptoList: one append per default cryptocurrency
RECURSIVE appendDefaults(_, _)
appendDefaults(w, k) ==
    IF k > Len(DefaultCryptos) THEN w
    ELSE LET next == appendCrypto(w, DefaultCryptos[k])
         IN  IF Computed(next) THEN appendDefaults(next, k + 1) ELSE next

\* the index of the first cell of the watchlist holding the symbol, 0 if none
RECURSIVE indexOfSymbol(_, _, _)
indexOfSymbol(w, symbol, k) ==
    IF k > w.len THEN 0
    ELSE IF w.cells[k] = symbol THEN k
    ELSE indexOfSymbol(w, symbol, k + 1)

\* append(list[:i], list[i+1:]...): the tail moves one cell down inside the
\* same array, whose last used cell keeps its old content
removeAt(w, i) ==
    [w EXCEPT
        !.cells = [k \in 1..Len(w.cells) |->
                      IF k >= i /\ k < w.len THEN w.cells[k + 1] ELSE w.cells[k]],
        !.len = w.len - 1]

\* the symbols in the watchlist
listed(w) == {w.cells[k] : k \in 1..w.len}

InitWatchlist ==
    /\ NewBotService(Load(DefaultMinConfidenceThreshold, DefaultMaxSignalsPerDay))
    /\ eng = [stage |-> "watch", running |-> FALSE, starts |-> 0, cycles |-> 0,
              edits |-> 0,
              cells |-> <<>>, len |-> 0, rcells |-> <<>>, aliased |-> FALSE,
              active |-> FALSE, rlen |-> 0, i |-> 0, analysed |-> <<>>,
              watched |-> {}, distinct |-> TRUE]

\* BotService.Start: initializeCryptoList, then isRunning = true
WatchStart ==
    /\ eng.stage = "watch"
    /\ eng.starts < MaxWatchStarts
    /\ eng' = [settled(appendDefaults(eng, 1)) EXCEPT !.running = TRUE,
                                             !.starts = eng.starts + 1]
    /\ UNCHANGED botVars

\* BotService.Stop
WatchStop ==
    /\ eng.stage = "watch"
    /\ eng.running
    /\ eng' = [eng EXCEPT !.running = FALSE]
    /\ UNCHANGED botVars

\* NotificationService.addCoinToWatch, reachable once Start has started the
\* Telegram handler: nothing when the symbol is listed or
\* CreateCryptocurrency fails, an append otherwise
addCoinToWatch ==
    /\ eng.stage = "watch"
    /\ eng.starts > 0
    /\ eng.edits < MaxWatchEdits
    /\ \E symbol \in WatchSymbols, created \in BOOLEAN :
          /\ indexOfSymbol(eng, symbol, 1) = 0
          /\ eng' = [(IF created THEN settled(appendCrypto(eng, symbol)) ELSE eng)
                        EXCEPT !.edits = eng.edits + 1]
    /\ UNCHANGED botVars

\* NotificationService.removeCoinFromWatch: removes the first cell holding
\* the symbol
removeCoinFromWatch ==
    /\ eng.stage = "watch"
    /\ eng.starts > 0
    /\ eng.edits < MaxWatchEdits
    /\ \E symbol \in WatchSymbols :
          LET i == indexOfSymbol(eng, symbol, 1)
          IN  /\ i # 0
              /\ eng' = [settled(removeAt(eng, i)) EXCEPT
                            !.watched = eng.watched \ {symbol},
                            !.edits = eng.edits + 1]
    /\ UNCHANGED botVars

\* RunAnalysis up to the head of its loop: the range copies the slice header
CycleBegin ==
    /\ eng.stage = "watch"
    /\ eng.running /\ ~eng.active
    /\ eng.cycles < MaxWatchCycles
    /\ eng' = [eng EXCEPT !.active = TRUE, !.cycles = eng.cycles + 1,
                          !.aliased = TRUE, !.rcells = <<>>,
                          !.rlen = eng.len, !.i = 0, !.analysed = <<>>,
                          !.watched = listed(eng),
                          !.distinct = (Cardinality(listed(eng)) = eng.len)]
    /\ UNCHANGED botVars

\* one iteration: analyzeCryptocurrency on the cell the range has reached,
\* then, when it returned nil, the pause whose length is divided by
\* len(bs.cryptoList) as it is now
CycleAnalyze ==
    /\ eng.stage = "watch"
    /\ eng.active /\ eng.i < eng.rlen
    /\ \E failed \in BOOLEAN :
          LET crypto == IF eng.aliased THEN eng.cells[eng.i + 1]
                        ELSE eng.rcells[eng.i + 1]
          IN  eng' = [eng EXCEPT
                        !.analysed = Append(eng.analysed, crypto),
                        !.i = eng.i + 1,
                        !.stage = IF ~failed /\ eng.len = 0 THEN "panic"
                                  ELSE "watch"]
    /\ UNCHANGED botVars

\* the range is exhausted: RunAnalysis returns
CycleEnd ==
    /\ eng.stage = "watch"
    /\ eng.active /\ eng.i >= eng.rlen
    /\ eng' = settled([eng EXCEPT !.active = FALSE, !.aliased = FALSE,
                                  !.rcells = <<>>])
    /\ UNCHANGED botVars

NextWatchlist ==
    \/ WatchStart
    \/ WatchStop
    \/ addCoinToWatch
    \/ removeCoinFromWatch
    \/ CycleBegin
    \/ CycleAnalyze
    \/ CycleEnd

SpecWatchlist == InitWatchlist /\ [][NextWatchlist]_vars

\* ------------------------------------------------- the database client
\* what main ends up with: a client with a SQL handle, a client in REST
\* fallback (useRest true, SQL handle nil), or no client at all
ClientModes == {"sql", "rest", "nil"}

\* the SupabaseClient methods that begin with "if s.useRest"
RestBranchOps == {"CreateSignal", "SaveMarketSnapshot", "CreateCryptocurrency"}

\* a SupabaseClient method called on the client of the given mode: on a nil
\* client the first field read dereferences nil; without a REST branch the
\* method calls Exec, Query or QueryRow on the nil *sql.DB
ClientCall(mode, op) ==
    IF mode = "nil" THEN "panic"
    ELSE IF mode = "sql" THEN "sql"
    ELSE IF op \in RestBranchOps THEN "rest"
    ELSE "panic"

\* a call site, which may test "db == nil" before the call
DatabaseCall(mode, op, guarded) ==
    IF guarded /\ mode = "nil" THEN "skipped" ELSE ClientCall(mode, op)

CallSites ==
    {"GenerateSignal", "saveMarketSnapshot", "SaveLearningData",
     "SendDailySummary", "handleSignalAnalytics", "handleGetSignal",
     "handleLearningInsights", "addCoinToWatch"}

InitDatabase ==
    /\ NewBotService(Load(DefaultMinConfidenceThreshold, DefaultMaxSignalsPerDay))
    /\ eng \in {[stage |-> "db", mode |-> m,
                  outcome |-> [site \in CallSites |-> "none"]] :
                 m \in ClientModes}

Called(site, op, guarded) ==
    /\ eng.outcome[site] = "none"
    /\ eng' = [eng EXCEPT
            !.outcome[site] = DatabaseCall(eng.mode, op, guarded)]
    /\ UNCHANGED botVars

\* SignalGenerator.GenerateSignal: sg.db.CreateSignal
DbGenerateSignal ==
    /\ eng.stage = "db"
    /\ Called("GenerateSignal", "CreateSignal", FALSE)

\* BotService.saveMarketSnapshot: returns early when bs.db == nil
DbSaveMarketSnapshot ==
    /\ eng.stage = "db"
    /\ Called("saveMarketSnapshot", "SaveMarketSnapshot", TRUE)

\* LearningEngine.SaveLearningData: le.db.SaveLearningData
DbSaveLearningData ==
    /\ eng.stage = "db"
    /\ Called("SaveLearningData", "SaveLearningData", FALSE)

\* BotService.SendDailySummary: bs.db.GetSignalAnalytics
DbSendDailySummary ==
    /\ eng.stage = "db"
    /\ Called("SendDailySummary", "GetSignalAnalytics", FALSE)

\* Server.handleSignalAnalytics: s.db.GetSignalAnalytics
DbHandleSignalAnalytics ==
    /\ eng.stage = "db"
    /\ Called("handleSignalAnalytics", "GetSignalAnalytics", FALSE)

\* Server.handleGetSignal: s.db.GetSignalByID
DbHandleGetSignal ==
    /\ eng.stage = "db"
    /\ Called("handleGetSignal", "GetSignalByID", FALSE)

\* Server.handleLearningInsights: s.db.GetLearningInsights
DbHandleLearningInsights ==
    /\ eng.stage = "db"
    /\ Called("handleLearningInsights", "GetLearningInsights", FALSE)

\* NotificationService.addCoinToWatch: ns.botService.db.CreateCryptocurrency
DbAddCoinToWatch ==
    /\ eng.stage = "db"
    /\ Called("addCoinToWatch", "CreateCryptocurrency", FALSE)

NextDatabase ==
    \/ DbGenerateSignal
    \/ DbSaveMarketSnapshot
    \/ DbSaveLearningData
    \/ DbSendDailySummary
    \/ DbHandleSignalAnalytics
    \/ DbHandleGetSignal
    \/ DbHandleLearningInsights
    \/ DbAddCoinToWatch

SpecDatabase == InitDatabase /\ [][NextDatabase]_vars

\* ------------------------------------ the indicator functions on one series
\* the close series of every window shape at every length
SeriesInputs ==
    {closePricesOf(parseKlineData(Klines(sh, n))) : sh \in Shapes, n \in 0..MaxBars}

\* the periods AnalyzeMarketData asks for
SeriesPeriods == {SignalPeriod, FastPeriod, RSIPeriod, BBPeriod, SlowPeriod}

InitSeries ==
    /\ NewBotService(Load(DefaultMinConfidenceThreshold, DefaultMaxSignalsPerDay))
    /\ eng \in {[stage |-> "series", closes |-> c, fn |-> "none", period |-> 0,
                  value |-> 0] : c \in SeriesInputs}

Applied(fn, period, value) ==
    /\ eng' = [eng EXCEPT !.stage = "value", !.fn = fn, !.period = period,
                          !.value = value]
    /\ UNCHANGED botVars

SeriesRSI ==
    /\ eng.stage = "series"
    /\ \E period \in SeriesPeriods :
          Applied("RSI", period, calculateRSI(eng.closes, period))

SeriesEMA ==
    /\ eng.stage = "series"
    /\ \E period \in SeriesPeriods :
          Applied("EMA", period, calculateEMA(eng.closes, period))

SeriesSMA ==
    /\ eng.stage = "series"
    /\ \E period \in SeriesPeriods :
          Applied("SMA", period, calculateSMA(eng.closes, period))

SeriesStandardDeviation ==
    /\ eng.stage = "series"
    /\ \E period \in SeriesPeriods :
          Applied("StdDev", period,
                  calculateStandardDeviation(eng.closes, period))

NextSeries == SeriesRSI \/ SeriesEMA \/ SeriesSMA \/ SeriesStandardDeviation

SpecSeries == InitSeries /\ [][NextSeries]_vars

EngineIdle ==
    [stage |-> "none", marketData |-> Nil, cfg |-> Nil, indicators |-> Nil,
     features |-> Nil, decision |-> Nil]

Init ==
    /\ \E c \in BotConfigs : NewBotService(c)
    /\ eng = EngineIdle

Next == Start \/ Stop \/ \E p \in Procs : Step(p)

Spec == Init /\ [][Next]_vars

SpecEngine == InitEngine /\ [][NextEngine]_vars
\* ================================================================ claims
ParsedBars(md) == Len(parseKlineData(md.KlineData))

MinConfidence(cfg) == Hundredths(cfg.MinConfidenceThreshold) * Scale

\* C1: a process whose parsed window has fewer than 26 bars never panics:
\* its analysis ends normally, without feature extraction being run on an
\* absent indicator set.
C1_ShortWindowEndsNormally ==
    \A p \in Procs :
        (marketData[p] # Nil /\ ParsedBars(marketData[p]) < MinPeriods)
            => (pc[p] # "panic" /\ ~crashed)

\* C2: neither the signals persisted nor totalSignalsToday ever exceed
\* MaxSignalsPerDay.
C2_QuotaNeverExceeded ==
    /\ totalSignalsToday <= config.MaxSignalsPerDay
    /\ savedSignals <= config.MaxSignalsPerDay

\* every indicator the scorer reads had the bars its period needs
IndicatorsAvailable(md) ==
    LET closePrices == closePricesOf(parseKlineData(md.KlineData))
    IN  /\ Len(closePrices) >= RSIPeriod + 1
        /\ Len(closePrices) >= SlowPeriod
        /\ Len(closePrices) >= BBPeriod
        /\ Len(calculateMACDHistory(closePrices, FastPeriod, SlowPeriod))
              >= SignalPeriod

\* C3: a signal is emitted only for a window from which every indicator the
\* scorer reads (RSI, EMA-12, EMA-26, MACD line, MACD signal line, SMA-20 and
\* bands) could be computed; none of them is the zero sentinel.
C3_EmittedOnlyWithAvailableIndicators ==
    \A p \in Procs : signal[p] # Nil => IndicatorsAvailable(marketData[p])

\* C4: a BUY decision has stopLoss < entryPrice < takeProfit1 < takeProfit2
\* and a SELL decision the mirrored order (targets are in units of
\* 1/(Scale*Scale), the entry price in units of 1/Scale).
C4_PriceTargetsOrdered ==
    eng.stage = "decision" =>
        LET d == eng.decision
            entry == d.EntryPrice * Scale
        IN  /\ d.Action = "BUY" =>
                (d.StopLoss < entry /\ entry < d.TakeProfit1
                    /\ d.TakeProfit1 < d.TakeProfit2)
            /\ d.Action = "SELL" =>
                (d.TakeProfit2 < d.TakeProfit1 /\ d.TakeProfit1 < entry
                    /\ entry < d.StopLoss)

RECURSIVE sumWeightsOf(_, _)
sumWeightsOf(votes, direction) ==
    IF votes = <<>> THEN 0
    ELSE (IF Head(votes).signal = direction THEN Head(votes).weight ELSE 0)
         + sumWeightsOf(Tail(votes), direction)

\* C5: the confidence of a BUY or SELL decision is the sum of the weights of
\* the votes in the winning direction only, times the share of the votes that
\* point in that direction.
C5_ConfidenceSumsWinningWeights ==
    (eng.stage = "decision" /\ eng.decision.Action # "HOLD") =>
        LET votes == castVotes(eng.marketData, eng.indicators, eng.cfg)
            win == eng.decision.Action
        IN  eng.decision.Confidence =
                sumWeightsOf(votes, win)
                    * voteRatio(countSignals(votes, win), Len(votes))

\* C6: the confidence of every decision lies in [0, 1], whatever votes were
\* cast.
C6_ConfidenceInUnitInterval ==
    eng.stage = "decision" =>
        (0 <= eng.decision.Confidence /\ eng.decision.Confidence <= Scale * Scale)

\* all five rule groups vote BUY: the confidence reaches 1
C6_FiveUnanimousVotes ==
    /\ eng.stage = "decision"
    /\ eng.decision.BuySignals = 5
    /\ eng.decision.Confidence = Scale * Scale

VoteCount(vote, direction) ==
    IF vote # <<>> /\ vote[1].signal = direction THEN 1 ELSE 0

\* the rule groups of one scoring, in the order they are evaluated
RuleGroups(e) ==
    <<rsiVote(e.indicators, e.cfg), macdVote(e.indicators),
      bollingerVote(e.marketData.Price, e.indicators),
      fearGreedVote(e.marketData, e.cfg),
      priceActionVote(e.marketData.Price, e.indicators)>>

GroupsVoting(e, direction) ==
    LET g == RuleGroups(e)
    IN  VoteCount(g[1], direction) + VoteCount(g[2], direction)
        + VoteCount(g[3], direction) + VoteCount(g[4], direction)
        + VoteCount(g[5], direction)

\* C7: the action is BUY iff more rule groups voted BUY than SELL, SELL iff
\* more voted SELL than BUY, HOLD otherwise; each of the five rule groups
\* casts at most one vote, so at most five votes are tallied.
C7_ActionByVoteCount ==
    eng.stage = "decision" =>
        LET buys == GroupsVoting(eng, "BUY")
            sells == GroupsVoting(eng, "SELL")
            d == eng.decision
        IN  /\ d.Action = "BUY" <=> buys > sells
            /\ d.Action = "SELL" <=> sells > buys
            /\ d.Action = "HOLD" <=> buys = sells
            /\ \A i \in 1..5 : Len(RuleGroups(eng)[i]) <= 1
            /\ d.BuySignals = buys /\ d.SellSignals = sells
            /\ d.TotalSignals = buys + sells /\ d.TotalSignals <= 5

\* SELL wins by count although the BUY votes weigh more
C7_LighterSideWins ==
    /\ eng.stage = "decision"
    /\ eng.decision.Action = "SELL"
    /\ GroupsVoting(eng, "BUY") = 1
    /\ GroupsVoting(eng, "SELL") = 2
    /\ rsiVote(eng.indicators, eng.cfg) # <<>>
    /\ rsiVote(eng.indicators, eng.cfg)[1].signal = "BUY"

\* C8: equal numbers of BUY and SELL votes, none at all included, give HOLD
\* with confidence exactly 0.1, and no decision divides by a zero vote total.
C8_TieIsHoldAtBaseline ==
    eng.stage = "decision" =>
        /\ GroupsVoting(eng, "BUY") = GroupsVoting(eng, "SELL") =>
              /\ eng.decision.Action = "HOLD"
              /\ 10 * eng.decision.Confidence = Scale * Scale
        /\ 0 \notin analyzeMarketConditionsDivisors(eng.marketData,
                                                    eng.indicators, eng.cfg)

\* a tie between votes of different weights
C8_WeightedTie ==
    /\ eng.stage = "decision"
    /\ eng.decision.Action = "HOLD"
    /\ GroupsVoting(eng, "BUY") = 1
    /\ GroupsVoting(eng, "SELL") = 1
    /\ rsiVote(eng.indicators, eng.cfg) # <<>>
    /\ priceActionVote(eng.marketData.Price, eng.indicators) # <<>>

C10_NoZeroDivisorOnFullWindow ==
    (eng.stage # "input" /\ eng.indicators # Nil) =>
        /\ 0 \notin AnalyzeMarketDataDivisors(eng.marketData)
        /\ eng.stage # "panic"

\* C11: the bbPosition feature that feature extraction returns lies in
\* [0, 1].
C11_BBPositionInUnitInterval ==
    eng.stage \in {"features", "decision"} =>
        (0 <= eng.features.BBPosition /\ eng.features.BBPosition <= Dec(1))

\* C13: on every window the engine computes indicators for, Stochastic %K
\* lies in [0, 100] and Williams %R in [-100, 0].
C13_OscillatorsInRange ==
    (eng.stage # "input" /\ eng.indicators # Nil) =>
        /\ 0 <= eng.indicators.StochK /\ eng.indicators.StochK <= Dec(100)
        /\ 0 - Dec(100) <= eng.indicators.Williams /\ eng.indicators.Williams <= 0

\* C12: the RSI of every close series, at every length, lies in [0, 100].
C12_RSIInRange ==
    (eng.stage = "value" /\ eng.fn = "RSI") =>
        (0 <= eng.value /\ eng.value <= Dec(100))

\* an RSI strictly inside the range, smoothed over a full window
C12_RSIInside ==
    /\ eng.stage = "value" /\ eng.fn = "RSI" /\ eng.period = RSIPeriod
    /\ Len(eng.closes) = MaxBars
    /\ 0 < eng.value /\ eng.value < Dec(100)

NonDecreasing(prices) ==
    \A i \in 1..(Len(prices) - 1) : prices[i] <= prices[i + 1]

StrictlyIncreasing(prices) ==
    \A i \in 1..(Len(prices) - 1) : prices[i] < prices[i + 1]

\* C14: RSI(14) of a close series of at least 15 values in which no step
\* decreases is exactly 100.
C14_RSIOfNonDecreasingIs100 ==
    (/\ eng.stage = "value" /\ eng.fn = "RSI" /\ eng.period = RSIPeriod
     /\ Len(eng.closes) >= RSIPeriod + 1
     /\ NonDecreasing(eng.closes))
        => eng.value = Dec(100)

\* 30 strictly increasing closes
C14_ThirtyRisingBars ==
    /\ eng.stage = "value" /\ eng.fn = "RSI" /\ eng.period = RSIPeriod
    /\ Len(eng.closes) = 30
    /\ StrictlyIncreasing(eng.closes)
    /\ eng.value = Dec(100)

\* C15: on a series shorter than the period, the empty one included, SMA,
\* EMA, RSI and the standard deviation return the zero sentinel and divide by
\* nothing (an index outside the series has no value in this model).
C15_ShortSeriesGiveSentinel ==
    (eng.stage = "value" /\ Len(eng.closes) < eng.period) =>
        /\ eng.value = 0
        /\ calculateRSIDivisors(eng.closes, eng.period) = {}

\* a series of non-zero prices one short of the period
C15_OneShortOfPeriod ==
    /\ eng.stage = "value" /\ eng.fn = "SMA"
    /\ Len(eng.closes) = eng.period - 1
    /\ \A i \in 1..Len(eng.closes) : eng.closes[i] > 0
    /\ eng.value = 0

\* C16: the market sentiment is extreme_fear up to 20, fear for 21..40,
\* neutral for 41..59, greed for 60..79 and extreme_greed from 80.
C16_SentimentBuckets ==
    eng.stage \in {"features", "prediction"} =>
        LET fg == eng.marketData.FearGreedIndex
        IN  eng.features.MarketSentiment =
                CASE fg <= 20 -> "extreme_fear"
                  [] fg \in 21..40 -> "fear"
                  [] fg \in 41..59 -> "neutral"
                  [] fg \in 60..79 -> "greed"
                  [] fg >= 80 -> "extreme_greed"

\* the index at the edge of the extreme-fear bucket
C16_ExtremeFearAtTwenty ==
    /\ eng.stage = "features"
    /\ eng.marketData.FearGreedIndex = 20
    /\ eng.features.MarketSentiment = "extreme_fear"

\* C17: the prediction is "profit" whenever the bullish or the bearish score
\* is at least 3, and otherwise "loss" with half the accumulated confidence.
C17_ProfitWhenAScoreReachesThree ==
    eng.stage = "prediction" =>
        LET reached == \/ bullishScore(eng.features) >= MinScore
                       \/ bearishScore(eng.features) >= MinScore
        IN  /\ eng.prediction.Outcome \in {"profit", "loss"}
            /\ reached => eng.prediction.Outcome = "profit"
            /\ ~reached =>
                   /\ eng.prediction.Outcome = "loss"
                   /\ 2 * eng.prediction.Confidence
                        = accumulatedConfidence(eng.features) * Scale

\* C18: the predicted confidence lies in (0, 1].
C18_PredictedConfidenceInRange ==
    eng.stage = "prediction" =>
        /\ 0 < eng.prediction.Confidence
        /\ eng.prediction.Confidence <= Dec(1) * Scale

\* every bullish test fires: the largest accumulated confidence
C18_AllBullishTestsFire ==
    /\ eng.stage = "prediction"
    /\ bullishScore(eng.features) = 8
    /\ eng.prediction.Confidence = Dec(1) * Scale

\* the rule group an explanation string belongs to, in evaluation order
GroupOf(reason) ==
    CASE reason \in {"RSI oversold", "RSI overbought"} -> 1
      [] reason \in {"MACD bullish crossover", "MACD bearish crossover"} -> 2
      [] reason \in {"Price below lower Bollinger Band",
                     "Price above upper Bollinger Band"} -> 3
      [] reason \in {"Extreme fear in market", "Extreme greed in market"} -> 4
      [] reason \in {"Price above SMA20 with bullish EMA crossover",
                     "Price below SMA20 with bearish EMA crossover"} -> 5
      [] OTHER -> 0

\* C19: the reasoning of a decision holds the explanation of exactly the
\* rule groups that fired, in the order RSI, MACD, Bollinger, sentiment,
\* price against SMA20/EMA, and is the same whenever the inputs are.
C19_ReasoningInEvaluationOrder ==
    eng.stage = "decision" =>
        LET reasoning == eng.decision.Reasoning
            groups == RuleGroups(eng)
        IN  /\ \A i \in 1..Len(reasoning) : GroupOf(reasoning[i]) \in 1..5
            /\ \A i, j \in 1..Len(reasoning) :
                   i < j => GroupOf(reasoning[i]) < GroupOf(reasoning[j])
            /\ \A g \in 1..5 :
                   IF groups[g] = <<>>
                   THEN \A i \in 1..Len(reasoning) : GroupOf(reasoning[i]) # g
                   ELSE \E i \in 1..Len(reasoning) :
                            reasoning[i] = groups[g][1].reason
            /\ reasoning = analyzeMarketConditions(eng.marketData, eng.indicators,
                                                   eng.cfg).Reasoning

\* RSI, sentiment and price action fire while MACD and Bollinger are silent
C19_ThreeOfFiveFire ==
    /\ eng.stage = "decision"
    /\ eng.decision.Reasoning =
           <<"RSI oversold", "Extreme fear in market",
             "Price above SMA20 with bullish EMA crossover">>

\* the caller holds the result of AnalyzeMarketData on the market data it has
Analyzed(q) ==
    /\ marketData[q] # Nil
    /\ pc[q] \notin {"idle", "fetch", "analyze"}

WindowCloses == closePricesOf(parseKlineData(eng.marketData.KlineData))

\* EMA-12 minus EMA-26 of the prefix of the given length
MACDOfPrefix(closes, length) ==
    calculateEMA(SubSeq(closes, 1, length), FastPeriod)
    - calculateEMA(SubSeq(closes, 1, length), SlowPeriod)

\* C21: on a window of n >= 26 closes the MACD history has n - 25 values,
\* the k-th being EMA-12 minus EMA-26 of the prefix of length 25 + k; its
\* last value is the MACD line; the signal line is the EMA-9 of the history,
\* seeded by the mean of its first 9 values (the zero sentinel while the
\* history is shorter than 9); the histogram is line minus signal.
C21_MACDFromHistory ==
    (eng.stage = "indicators" /\ eng.indicators # Nil) =>
        LET closes == WindowCloses
            n == Len(closes)
            history == calculateMACDHistory(closes, FastPeriod, SlowPeriod)
            seed == Div(SumFromTo(history, 0, SignalPeriod), Dec(SignalPeriod))
        IN  /\ n >= MinPeriods
            /\ Len(history) = n - (SlowPeriod - 1)
            /\ \A k \in 1..Len(history) :
                   history[k] = MACDOfPrefix(closes, SlowPeriod - 1 + k)
            /\ eng.indicators.MACDLine = history[Len(history)]
            /\ eng.indicators.MACDSignal =
                   IF Len(history) < SignalPeriod THEN 0
                   ELSE emaLoop(history, Div(Dec(2), Dec(SignalPeriod + 1)),
                                SignalPeriod, seed)
            /\ eng.indicators.MACDHistogram =
                   eng.indicators.MACDLine - eng.indicators.MACDSignal

\* a full window whose history is long enough to seed the signal line
C21_SignalFromElevenValues ==
    /\ eng.stage = "indicators" /\ eng.indicators # Nil
    /\ Len(WindowCloses) = MaxBars
    /\ eng.indicators.MACDSignal # 0
    /\ eng.indicators.MACDHistogram # 0
    /\ eng.indicators.MACDSignal # eng.indicators.MACDLine

\* the caller is inside BotService.RunAnalysis
InCycle(p) == pc[p] \notin {"idle", "panic"}

\* C22: at most one analysis cycle is in progress at any time, whichever
\* callers of RunAnalysis are interleaved.
C22_OneCycleAtATime ==
    \A p, q \in Procs : (InCycle(p) /\ InCycle(q)) => p = q

\* C25: totalSignalsToday never decreases.
C25_CounterNeverDecreases ==
    [][totalSignalsToday' >= totalSignalsToday]_vars

\* C26: while the bot is stopped no signal is persisted, notified or
\* counted, not even by a cycle that was in progress when Stop was called.
C26_NothingEmittedWhileStopped ==
    [][~isRunning => UNCHANGED <<savedSignals, sentNotifications,
                                 totalSignalsToday>>]_vars

\* C27: within one instrument analysis a signal is notified only after it
\* was persisted; when persisting fails the analysis ends with no learning
\* record, no notification and no count; whether or not the notification is
\* delivered, the count step follows and adds one to the value it read.
C27_PersistThenNotifyThenCount ==
    [][\A p \in Procs :
        /\ (pc[p] = "generate" /\ pc'[p] \in {"loop", "sleep"}) =>
               /\ signal'[p] = Nil
               /\ UNCHANGED counters
        /\ (pc[p] = "generate" /\ pc'[p] \notin {"generate", "loop", "sleep"}) =>
               /\ pc'[p] = "learn"
               /\ signal'[p] # Nil
               /\ savedSignals' = savedSignals + 1
               /\ UNCHANGED <<sentNotifications, totalSignalsToday>>
        /\ (pc[p] # "notify" /\ pc'[p] = "notify") =>
               (pc[p] = "learn" /\ signal[p] # Nil)
        /\ (pc[p] = "notify" /\ pc'[p] # "notify") =>
               /\ pc'[p] = "count"
               /\ sentNotifications' \in {sentNotifications, sentNotifications + 1}
               /\ UNCHANGED <<savedSignals, totalSignalsToday>>
        /\ (pc[p] = "count" /\ pc'[p] # "count") =>
               (pc'[p] = "store" /\ loaded'[p] = totalSignalsToday)
        /\ (pc[p] = "store" /\ pc'[p] # "store") =>
               /\ pc'[p] = "sleep"
               /\ totalSignalsToday' = loaded[p] + 1
        /\ (pc[p] \notin {"notify", "store"}) =>
               (pc'[p] = pc[p] \/ UNCHANGED <<sentNotifications, totalSignalsToday>>)
      ]_vars

\* a persisted signal whose notification was not delivered has been counted
C27_CountedWithoutNotification ==
    \E p \in Procs :
        /\ pc[p] = "sleep"
        /\ signal[p] # Nil
        /\ savedSignals = 1
        /\ sentNotifications = 0
        /\ totalSignalsToday = 1
        /\ \A q \in Procs \ {p} : pc[q] = "idle"

\* C28: without a SQL connection (no client, or a client in REST fallback)
\* every database operation is served by the REST client or skipped, and
\* none dereferences the missing handle.
C28_NoSqlHandleNeeded ==
    (eng.stage = "db" /\ eng.mode \in {"rest", "nil"}) =>
        \A site \in CallSites : eng.outcome[site] \in {"none", "rest", "skipped"}

Opposite(action) == IF action = "BUY" THEN "SELL" ELSE "BUY"

\* the weight of each rule group, in evaluation order
GroupWeights ==
    <<WeightRSI, WeightMACD, WeightBollinger, WeightFearGreed, WeightPriceAction>>

\* the votes of the scoring with one more vote, cast against the action by
\* a rule group that was silent
WithOpposingVote(e, g) ==
    castVotes(e.marketData, e.indicators, e.cfg)
      \o Vote(Opposite(e.decision.Action), GroupWeights[g], "opposing")

ConfidenceOf(votes) ==
    decideConfidence(countSignals(votes, "BUY"), countSignals(votes, "SELL"),
                     Len(votes), sumConfidence(votes))

ActionOf(votes) ==
    selectAction(countSignals(votes, "BUY"), countSignals(votes, "SELL"))

\* C29: one more vote against a BUY or SELL decision, the action staying
\* what it was, never raises the confidence, and so never lifts it from
\* below the minimum confidence threshold to at or above it.
C29_OppositionNeverRaisesConfidence ==
    (eng.stage = "decision" /\ eng.decision.Action \in {"BUY", "SELL"}) =>
        \A g \in 1..5 :
            (/\ RuleGroups(eng)[g] = <<>>
             /\ ActionOf(WithOpposingVote(eng, g)) = eng.decision.Action)
                => ConfidenceOf(WithOpposingVote(eng, g)) <= eng.decision.Confidence

\* the bucket a notification label names
BucketOfText(text) ==
    CASE text = "Extreme Fear" -> "extreme_fear"
      [] text = "Fear" -> "fear"
      [] text = "Neutral" -> "neutral"
      [] text = "Greed" -> "greed"
      [] text = "Extreme Greed" -> "extreme_greed"

\* C30: the sentiment label of the notification names the bucket that the
\* marketSentiment feature has for the same index.
C30_LabelMatchesFeature ==
    eng.stage = "message" =>
        BucketOfText(eng.fgiText) = eng.features.MarketSentiment

\* how often the cycle analysed the symbol
RECURSIVE TimesAnalysed(_, _)
TimesAnalysed(analysed, symbol) ==
    IF analysed = <<>> THEN 0
    ELSE (IF Head(analysed) = symbol THEN 1 ELSE 0)
         + TimesAnalysed(Tail(analysed), symbol)

\* C23: when a cycle (begun on a watchlist without repeated symbols) has
\* ended, every symbol that stayed in the watchlist throughout was analysed
\* exactly once, and the pause never divided by a zero list length.
C23_EachWatchedSymbolOnce ==
    /\ eng.stage # "panic"
    /\ (eng.stage = "watch" /\ eng.cycles > 0 /\ ~eng.active /\ eng.distinct) =>
           \A symbol \in eng.watched : TimesAnalysed(eng.analysed, symbol) = 1

\* C24: no symbol appears more than once in the watchlist.
C24_NoRepeatedSymbol ==
    eng.stage = "watch" => Cardinality(listed(eng)) = eng.len
====
